---- MODULE Spec2Model ----
(***************************************************************************)
(* A model of featuretools/entityset/deserialize.py: reading an entity-set *)
(* back from a local directory, a URL or an S3 path.  One run of the model *)
(* is one call of read_entityset or of description_to_entityset, stepped   *)
(* statement by statement; the calls made on the collaborators (EntitySet, *)
(* pandas, smart_open / s3fs, tarfile) are recorded in logs.               *)
(*                                                                         *)
(* Python values: a dict is a set of <<key, value>> pairs with one pair    *)
(* per key; None-or-object is a sequence of length 0 or 1; a path is a     *)
(* sequence of segments, the empty path standing for None (both falsy).    *)
(***************************************************************************)
EXTENDS Integers, Sequences, FiniteSets, TLC

\* Bounds of the model: the entities of a manifest passed to
\* description_to_entityset, the entities of a manifest stored in a directory
\* or an archive, the relationships of a manifest, and the calls of
\* description_to_entityset made on one manifest object.
MaxEntities == 2
MaxStoredEntities == 1
MaxRelationships == 2
MaxCalls == 2

VARIABLES
    entry,            \* which function the caller invoked
    path,             \* read_entityset's path argument
    profile_name,     \* read_entityset's profile_name argument
    kwargs,           \* the caller's extra keyword parameters
    manifest_file,    \* data_description.json as open() found it, once read
    description,      \* the manifest object in memory (mutable dict), or None
    description0,     \* the manifest as it was when description_to_entityset was called
    entityset,        \* the EntitySet under construction, or None
    last_time_index,  \* the local list of flagged entity ids
    i,                \* entities fully processed by the loop of line 82
    j,                \* relationships processed by the loop of line 89
    dataframe,        \* the dataframe of the entity being reconstructed
    tmpdir,           \* the TemporaryDirectory: "none", "exists", "removed"
    transfers,        \* calls of use_smartopen_es / use_s3fs_es
    log,              \* calls on the collaborators, in order
    reads,            \* calls of read_entity_data with what they passed and did
    result,           \* what the caller got back: an entity-set or nothing
    error,            \* the exception that reached the caller, if any
    ncalls,           \* calls of description_to_entityset on this manifest object
    pc                \* the statement about to run

vars == <<entry, path, profile_name, kwargs, manifest_file, description,
          description0, entityset, last_time_index, i, j, dataframe, tmpdir,
          transfers, log, reads, result, error, ncalls, pc>>

-----------------------------------------------------------------------------
(* Python dicts *)

Keys(d) == {p[1] : p \in d}

Get(d, k) == (CHOOSE p \in d : p[1] = k)[2]

\* a merge that keeps d's value on the keys both dicts have
UpdateManifestWins(d, other) == d \cup {p \in other : p[1] \notin Keys(d)}

\* dict.update: the other dict wins on every key it has.
Update(d, other) == {p \in d : p[1] \notin Keys(other)} \cup other

\* a dict without key k (what is left after d.pop(k))
Without(d, k) == {p \in d : p[1] # k}

Restrict(d, ks) == {p \in d : p[1] \in ks}

-----------------------------------------------------------------------------
(* Paths *)

NoPath == <<>>

Cwd == <<"/", "home", "user">>

TmpDirPath == <<"/", "tmp", "tmpdir">>

ExistingDirs == {<<"/", "srv", "data">>, Cwd \o <<"data">>, TmpDirPath}

LocalPaths == {<<"data">>, <<"/", "srv", "data">>, <<"nowhere">>}

UrlPath == <<"https:", "host", "es.tar">>

S3Path == <<"s3:", "bucket", "es.tar">>

Paths == LocalPaths \cup {UrlPath, S3Path}

_is_url(p) == p # NoPath /\ p[1] \in {"http:", "https:"}

_is_s3(p) == p # NoPath /\ p[1] = "s3:"

abspath(p) == IF p # NoPath /\ p[1] = "/" THEN p ELSE Cwd \o p

exists(p) == p \in ExistingDirs

\* Path(path).name and os.path.join(tmpdir, file_name)
StagingFile(p) == TmpDirPath \o <<p[Len(p)]>>

-----------------------------------------------------------------------------
(* Manifests *)

SCHEMA_VERSION == "3.1.0"

SchemaVersions == {"3.1.0", "4.0.0"}

\* check_schema_version passes
CompatibleVersion(v) == v = SCHEMA_VERSION

FORMATS == <<"csv", "pickle", "parquet">>

FormatTags == {"csv", "parquet", "pickle", "xml"}

LatLongType == "latlong"

KnownVariableTypes == {"index", "numeric", LatLongType}

StrTag(name) == [is_str |-> TRUE, str |-> name, obj |-> {}]

ObjTag(name) == [is_str |-> FALSE, str |-> "", obj |-> {<<"value", name>>, <<"range", "any">>}]

\* the variable lists of a manifest's entities: all tags objects carrying
\* 'value', or all tags bare strings
VariableLists ==
    { << [id |-> "age", type |-> ObjTag("numeric")],
         [id |-> "loc", type |-> ObjTag(LatLongType)] >>,
      << [id |-> "age", type |-> StrTag("numeric")],
         [id |-> "loc", type |-> StrTag(LatLongType)] >> }

\* loading_info.params as stored for each format
ManifestParams(format) ==
    CASE format = "csv" -> {<<"engine", "c">>, <<"compression", "gzip">>, <<"encoding", "utf-8">>}
      [] format = "parquet" -> {<<"engine", "auto">>}
      [] format = "pickle" -> {<<"compression", "gzip">>}
      [] OTHER -> {}

KwargChoices == { {}, {<<"engine", "python">>, <<"nrows", "5">>} }

EntityChoices == [last_time_index : BOOLEAN, type : FormatTags]

EntityDescription(id, c, variables) ==
    [id |-> id, variables |-> variables, last_time_index |-> c.last_time_index,
     type |-> c.type, params |-> ManifestParams(c.type)]

\* the entities of a manifest, in stored order: at most max of them
EntityLists(max) ==
    UNION { {[k \in 1..n |-> EntityDescription(k, c[k], v)] :
                c \in [1..n -> EntityChoices], v \in VariableLists}
            : n \in 0..max }

\* relationships between the first entity and the last one a manifest may have
RelationshipDescriptions ==
    {[parent |-> p, child |-> c] : p, c \in {1, MaxEntities}}
        \ {[parent |-> p, child |-> p] : p \in {1, MaxEntities}}

RelationshipLists == UNION {[1..r -> RelationshipDescriptions] : r \in 0..MaxRelationships}

Manifests(max) ==
    [schema_version : SchemaVersions, entities : EntityLists(max),
     relationships : RelationshipLists, path : {NoPath}]

-----------------------------------------------------------------------------
(* Errors and log entries *)

NoError == [type |-> "", where |-> "", formats |-> <<>>]

Error(t, where) == [type |-> t, where |-> where, formats |-> <<>>]

\* lines 138-139: 'must be one of the following formats: ' and the FORMATS
UnsupportedFormat == [type |-> "ValueError", where |-> "read_entity_data", formats |-> FORMATS]

Call(op, arg) == [op |-> op, arg |-> arg]

-----------------------------------------------------------------------------
(* Variable Reconstructor *)

\* find_variable_types().get(type, Unknown)
VariableClass(type) == IF type \in KnownVariableTypes THEN type ELSE "unknown"

\* description_to_variable(description) with entity=None: the class found, the
\* description as the call leaves it (the 'value' key popped), or a KeyError
\* when an object tag holds no 'value'.
description_to_variable(vd) ==
    IF vd.type.is_str
    THEN [ok |-> TRUE, variable |-> VariableClass(vd.type.str), description |-> vd]
    ELSE IF "value" \in Keys(vd.type.obj)
         THEN [ok |-> TRUE, variable |-> VariableClass(Get(vd.type.obj, "value")),
               description |-> [vd EXCEPT !.type.obj = Without(@, "value")]]
         ELSE [ok |-> FALSE, variable |-> "", description |-> vd]

\* The dict comprehension of line 54 over description['variables'], in order:
\* the index of the first variable whose reconstruction raises (0 when none),
\* the classes found, and the variable descriptions as the loop leaves them.
VariableTypes(variables) ==
    LET n == Len(variables)
        bad == {k \in 1..n : ~description_to_variable(variables[k]).ok}
        failed_at == IF bad = {} THEN 0 ELSE CHOOSE k \in bad : \A m \in bad : k <= m
    IN  [failed_at |-> failed_at,
         types |-> [k \in 1..n |-> [id |-> variables[k].id,
                                    variable |-> description_to_variable(variables[k]).variable]],
         variables |-> [k \in 1..n |->
                          IF failed_at = 0 \/ k < failed_at
                          THEN description_to_variable(variables[k]).description
                          ELSE variables[k]]]

-----------------------------------------------------------------------------
(* Table Data Loader *)

TextCell(t) == [form |-> "text", text |-> t, nums |-> <<>>]

TupleCell(t) == [form |-> "tuple", text |-> <<>>, nums |-> t]

NumberCell(x) == [form |-> "number", text |-> <<>>, nums |-> <<x>>]

EmptyCell == [form |-> "empty", text |-> <<>>, nums |-> <<>>]

\* float(): a decimal token to tenths
Float(token) ==
    CASE token = "40.5" -> 405
      [] token = " -73.9" -> 0 - 739
      [] OTHER -> 0

\* What the data file of an entity holds in a column: csv and parquet files
\* store a coordinate pair as the text "(40.5, -73.9)", a pickle as a tuple.
FileCell(format, column) ==
    IF column = "loc"
    THEN IF format = "pickle"
         THEN TupleCell(<<405, 0 - 739>>)
         ELSE TextCell(<<"(", "40.5", ",", " -73.9", ")">>)
    ELSE NumberCell(Len(Cwd) + Len(column))

\* str.split(sep) on a sequence of tokens
RECURSIVE Split(_, _)
Split(s, sep) ==
    IF \A k \in 1..Len(s) : s[k] # sep
    THEN <<s>>
    ELSE LET at == CHOOSE k \in 1..Len(s) : s[k] = sep /\ \A m \in 1..(k - 1) : s[m] # sep
         IN  <<SubSeq(s, 1, at - 1)>> \o Split(SubSeq(s, at + 1, Len(s)), sep)

\* parse_latlong(x): tuple(float(y) for y in x[1:-1].split(","))
parse_latlong(x) ==
    LET parts == Split(SubSeq(x, 2, Len(x) - 1), ",")
    IN  [k \in 1..Len(parts) |-> Float(parts[k][1])]

\* empty_dataframe(description): the declared columns, no rows
empty_dataframe(desc) ==
    [k \in 1..Len(desc.variables) |->
        [id |-> desc.variables[k].id, cell |-> EmptyCell]]

CsvKeys == {"engine", "compression", "encoding"}

ParquetKeys == {"engine"}

ReadResult(format, kw, reader, passed, err, df, decoded) ==
    [format |-> format, kwargs |-> kw, reader |-> reader, passed |-> passed,
     error |-> err, dataframe |-> df, decoded |-> decoded]

\* Lines 143-153: the columns whose var_description['type']['value'] is the
\* LatLong type string are decoded; a bare-string tag cannot be subscripted
\* with 'value' (TypeError), an object tag without 'value' is a KeyError.
DecodeLatLongs(desc, df) ==
    LET vs == desc.variables
        n == Len(vs)
        bad == {k \in 1..n : vs[k].type.is_str \/ "value" \notin Keys(vs[k].type.obj)}
        first == IF bad = {} THEN 0 ELSE CHOOSE k \in bad : \A m \in bad : k <= m
        latlongs == {vs[k].id : k \in {m \in 1..n : Get(vs[m].type.obj, "value") = LatLongType}}
    IN  IF first # 0
        THEN [error |-> IF vs[first].type.is_str THEN Error("TypeError", "read_entity_data") ELSE Error("KeyError", "read_entity_data"),
              dataframe |-> df, decoded |-> {}]
        ELSE [error |-> NoError,
              dataframe |-> [k \in 1..Len(df) |->
                               IF df[k].id \in latlongs
                               THEN [df[k] EXCEPT !.cell = TupleCell(parse_latlong(@.text))]
                               ELSE df[k]],
              decoded |-> latlongs]

\* a loader whose last branch takes every other format tag for a pickle
read_entity_data_any_format(desc, lib_ok) ==
    LET format == desc.type
        kw == desc.params
        raw == [k \in 1..Len(desc.variables) |->
                  [id |-> desc.variables[k].id,
                   cell |-> FileCell(format, desc.variables[k].id)]]
        done(reader, passed) ==
            IF ~lib_ok
            THEN ReadResult(format, kw, reader, passed, Error("IOError", "pandas"), <<>>, {})
            ELSE IF format \in {"parquet", "csv"}
                 THEN LET d == DecodeLatLongs(desc, raw)
                      IN  ReadResult(format, kw, reader, passed, d.error, d.dataframe, d.decoded)
                 ELSE ReadResult(format, kw, reader, passed, NoError, raw, {})
    IN  CASE format = "csv" ->
               IF CsvKeys \subseteq Keys(kw)
               THEN done("read_csv", Restrict(kw, CsvKeys))
               ELSE ReadResult(format, kw, "read_csv", {}, Error("KeyError", "read_entity_data"), <<>>, {})
          [] format = "parquet" ->
               IF ParquetKeys \subseteq Keys(kw)
               THEN done("read_parquet", Restrict(kw, ParquetKeys))
               ELSE ReadResult(format, kw, "read_parquet", {}, Error("KeyError", "read_entity_data"), <<>>, {})
          [] OTHER -> done("read_pickle", kw)

\* read_entity_data(description, path); lib_ok says whether the pandas reader
\* and the astype cast of line 141 succeed.
read_entity_data(desc, lib_ok) ==
    LET format == desc.type
        kw == desc.params
        raw == [k \in 1..Len(desc.variables) |->
                  [id |-> desc.variables[k].id,
                   cell |-> FileCell(format, desc.variables[k].id)]]
        done(reader, passed) ==
            IF ~lib_ok
            THEN ReadResult(format, kw, reader, passed, Error("IOError", "pandas"), <<>>, {})
            ELSE IF format \in {"parquet", "csv"}
                 THEN LET d == DecodeLatLongs(desc, raw)
                      IN  ReadResult(format, kw, reader, passed, d.error, d.dataframe, d.decoded)
                 ELSE ReadResult(format, kw, reader, passed, NoError, raw, {})
    IN  CASE format = "csv" ->
               IF CsvKeys \subseteq Keys(kw)
               THEN done("read_csv", Restrict(kw, CsvKeys))
               ELSE ReadResult(format, kw, "read_csv", {}, Error("KeyError", "read_entity_data"), <<>>, {})
          [] format = "parquet" ->
               IF ParquetKeys \subseteq Keys(kw)
               THEN done("read_parquet", Restrict(kw, ParquetKeys))
               ELSE ReadResult(format, kw, "read_parquet", {}, Error("KeyError", "read_entity_data"), <<>>, {})
          [] format = "pickle" -> done("read_pickle", kw)
          [] OTHER -> ReadResult(format, kw, "", {}, UnsupportedFormat, <<>>, {})

-----------------------------------------------------------------------------
(* Remote Fetch Orchestrator: helpers *)

PyNone == "<None>"

PyFalse == "<False>"

ProfileNames == {"dev"}

Profiles == {PyNone, PyFalse} \cup ProfileNames

\* isinstance(profile_name, str)
IsStr(profile) == profile \notin {PyNone, PyFalse}

Transfer(fn, session, credentials, src, dst) ==
    [fn |-> fn, session |-> session, credentials |-> credentials, src |-> src, dst |-> dst]

\* a choice that streams the download when profile_name is False
TransferStrategyFalseStreams(p, profile, ambient) ==
    IF _is_url(p) THEN Transfer("use_smartopen_es", "", "unprobed", p, StagingFile(p))
    ELSE IF IsStr(profile) THEN Transfer("use_smartopen_es", profile, "unprobed", p, StagingFile(p))
    ELSE IF profile = PyFalse THEN Transfer("use_smartopen_es", "", "unprobed", p, StagingFile(p))
    ELSE IF ambient THEN Transfer("use_smartopen_es", "", "found", p, StagingFile(p))
    ELSE Transfer("use_s3fs_es", "", "absent", p, StagingFile(p))

\* Lines 193-203: which download runs. ambient is what
\* boto3.Session().get_credentials() would find; it is probed only in the
\* fourth branch.
TransferStrategy(p, profile, ambient) ==
    IF _is_url(p) THEN Transfer("use_smartopen_es", "", "unprobed", p, StagingFile(p))
    ELSE IF IsStr(profile) THEN Transfer("use_smartopen_es", profile, "unprobed", p, StagingFile(p))
    ELSE IF profile = PyFalse THEN Transfer("use_s3fs_es", "", "unprobed", p, StagingFile(p))
    ELSE IF ambient THEN Transfer("use_smartopen_es", "", "found", p, StagingFile(p))
    ELSE Transfer("use_s3fs_es", "", "absent", p, StagingFile(p))

\* a directory removed by hand before the return, and so left behind by an
\* exception
ExitTmpdirOnReturnOnly(t, raising) == IF t = "exists" /\ ~raising THEN "removed" ELSE t

\* Leaving the `with tempfile.TemporaryDirectory()` block of line 187, by a
\* return or by an exception: the directory is removed.
ExitTmpdir(t, raising) == IF t = "exists" THEN "removed" ELSE t

\* An exception leaves the call: nothing is returned, the with block is left.
Raise(err) ==
    /\ pc' = "raised"
    /\ error' = err
    /\ result' = <<>>
    /\ tmpdir' = ExitTmpdir(tmpdir, TRUE)

\* a reader that returns the parsed manifest without setting 'path'
read_data_description_unstamped(p, m) == m

\* read_data_description(path) on a directory holding the manifest m
read_data_description(p, m) == [m EXCEPT !.path = abspath(p)]

-----------------------------------------------------------------------------
(* The state machine *)

NoFile == [state |-> "none", content |-> <<>>]

ManifestFiles ==
    {[state |-> "ok", content |-> <<m>>] : m \in Manifests(MaxStoredEntities)}
        \cup {[state |-> "missing", content |-> <<>>], [state |-> "invalid", content |-> <<>>]}

DirectPaths == {NoPath, <<"/", "srv", "data">>}

InitLocals ==
    /\ description0 = <<>>
    /\ entityset = <<>>
    /\ last_time_index = <<>>
    /\ i = 0
    /\ j = 0
    /\ dataframe = <<>>
    /\ tmpdir = "none"
    /\ transfers = <<>>
    /\ log = <<>>
    /\ reads = <<>>
    /\ result = <<>>
    /\ error = NoError
    /\ ncalls = 0

Init ==
    /\ InitLocals
    /\ kwargs \in KwargChoices
    /\ \/ /\ entry = "read_entityset"
          /\ path \in Paths
          /\ profile_name \in Profiles
          /\ manifest_file = NoFile
          /\ description = <<>>
          /\ pc = "read_entityset"
       \/ /\ entry = "description_to_entityset"
          /\ path = NoPath
          /\ profile_name = PyNone
          /\ manifest_file = NoFile
          /\ description \in {<<[m EXCEPT !.path = p]>> : m \in Manifests(MaxEntities), p \in DirectPaths}
          /\ pc = "description_to_entityset"

Remote == _is_url(path) \/ _is_s3(path)

\* the loop over the entities left as soon as one entity is registered
AfterEntitiesEarly(k) ==
    IF k = 0 /\ Len(description[1].entities) > 0 THEN "entities"
    ELSE IF Len(description[1].relationships) > 0 THEN "relationships"
    ELSE "last_time_indexes"

\* where the loop over the entities goes next, k entities being done
AfterEntities(k) ==
    IF k < Len(description[1].entities) THEN "entities"
    ELSE IF Len(description[1].relationships) > 0 THEN "relationships"
    ELSE "last_time_indexes"

AfterRelationships(k) ==
    IF k < Len(description[1].relationships) THEN "relationships" ELSE "last_time_indexes"

\* read_entityset, lines 186-191: a remote path gets a temporary directory
ReadEntityset ==
    /\ pc = "read_entityset"
    /\ IF Remote
       THEN /\ tmpdir' = "exists"
            /\ pc' = "transfer"
       ELSE /\ tmpdir' = tmpdir
            /\ pc' = "read_data_description"
    /\ UNCHANGED <<entry, path, profile_name, kwargs, manifest_file, description,
                   description0, entityset, last_time_index, i, j, dataframe,
                   transfers, log, reads, result, error, ncalls>>

\* lines 193-203: the archive is fetched into the temporary directory
Fetch ==
    /\ pc = "transfer"
    /\ \E ambient \in BOOLEAN, ok \in BOOLEAN :
         /\ transfers' = Append(transfers, TransferStrategy(path, profile_name, ambient))
         /\ IF ok
            THEN /\ pc' = "extract"
                 /\ UNCHANGED <<error, result, tmpdir>>
            ELSE Raise(Error("TransferError", "read_entityset"))
    /\ UNCHANGED <<entry, path, profile_name, kwargs, manifest_file, description,
                   description0, entityset, last_time_index, i, j, dataframe,
                   log, reads, ncalls>>

\* lines 205-206: the archive is extracted in place
Extract ==
    /\ pc = "extract"
    /\ log' = Append(log, Call("extractall", <<>>))
    /\ \E ok \in BOOLEAN :
         IF ok
         THEN /\ pc' = "read_data_description"
              /\ UNCHANGED <<error, result, tmpdir>>
         ELSE Raise(Error("TarError", "read_entityset"))
    /\ UNCHANGED <<entry, path, profile_name, kwargs, manifest_file, description,
                   description0, entityset, last_time_index, i, j, dataframe,
                   transfers, reads, ncalls>>

\* read_data_description, lines 168-174, called at line 208 or 211; what
\* open() and json.load find in the directory is the stored manifest
ReadDataDescription ==
    /\ pc = "read_data_description"
    /\ LET dir == IF Remote THEN TmpDirPath ELSE path
       IN  IF ~exists(abspath(dir))
           THEN Raise(Error("AssertionError", "read_data_description")) /\ UNCHANGED <<description, manifest_file>>
           ELSE \E f \in ManifestFiles :
                  /\ manifest_file' = f
                  /\ IF f.state = "missing"
                     THEN Raise(Error("FileNotFoundError", "read_data_description")) /\ UNCHANGED description
                     ELSE IF f.state = "invalid"
                     THEN Raise(Error("JSONDecodeError", "read_data_description")) /\ UNCHANGED description
                     ELSE /\ description' = <<read_data_description(dir, f.content[1])>>
                          /\ pc' = "description_to_entityset"
                          /\ UNCHANGED <<error, result, tmpdir>>
    /\ log' = Append(log, Call("read_data_description", <<>>))
    /\ UNCHANGED <<entry, path, profile_name, kwargs,
                   description0, entityset, last_time_index, i, j, dataframe,
                   transfers, reads, ncalls>>

-----------------------------------------------------------------------------
(* Entity-Set Reconstructor *)

NewEntitySet == [entities |-> <<>>, relationships |-> <<>>, last_time_indexes |-> <<>>]

\* a collection that takes every entity's id, flagged or not
CollectEveryEntity(lti, e) == Append(lti, e.id)

\* lines 86-87: the ids of the flagged entities are collected
CollectLastTimeIndex(lti, e) == IF e.last_time_index THEN Append(lti, e.id) ELSE lti

\* Relationship.from_dictionary(relationship, entityset) finds both entities
Resolves(rel, es) ==
    LET ids == {es.entities[k].id : k \in 1..Len(es.entities)}
    IN  rel.parent \in ids /\ rel.child \in ids

\* description_to_entityset without the check of line 74
DescriptionToEntitysetUnchecked ==
    /\ pc = "description_to_entityset"
    /\ description0' = description
    /\ ncalls' = ncalls + 1
    /\ log' = log \o <<Call("EntitySet", <<>>)>>
    /\ entityset' = <<NewEntitySet>>
    /\ last_time_index' = <<>>
    /\ pc' = AfterEntities(0)
    /\ UNCHANGED <<error, result, tmpdir>>
    /\ UNCHANGED <<entry, path, profile_name, kwargs, manifest_file, description,
                   i, j, dataframe, transfers, reads>>

\* description_to_entityset, lines 74-81: the version check, then the empty
\* EntitySet and the empty list of flagged entities
DescriptionToEntityset ==
    /\ pc = "description_to_entityset"
    /\ description0' = description
    /\ ncalls' = ncalls + 1
    /\ IF CompatibleVersion(description[1].schema_version)
       THEN /\ log' = log \o <<Call("check_schema_version", <<>>), Call("EntitySet", <<>>)>>
            /\ entityset' = <<NewEntitySet>>
            /\ last_time_index' = <<>>
            /\ pc' = AfterEntities(0)
            /\ UNCHANGED <<error, result, tmpdir>>
       ELSE /\ log' = Append(log, Call("check_schema_version", <<>>))
            /\ Raise(Error("SchemaVersionError", "check_schema_version"))
            /\ UNCHANGED <<entityset, last_time_index>>
    /\ UNCHANGED <<entry, path, profile_name, kwargs, manifest_file, description,
                   i, j, dataframe, transfers, reads>>

\* line 83, then description_to_entity's lines 50-53: the caller's parameters
\* are merged into the entity's loading_info params (in the manifest itself),
\* then the data is read, or an empty dataframe made when there is no path
LoadEntity ==
    /\ pc = "entities"
    /\ \E lib_ok \in BOOLEAN :
         LET e == description[1].entities[i + 1]
             merged == [e EXCEPT !.params = Update(@, kwargs)]
             dir == description[1].path
             r == read_entity_data(merged, lib_ok)
         IN  /\ description' = <<[description[1] EXCEPT !.entities[i + 1] = merged]>>
             /\ IF dir # NoPath
                THEN /\ log' = Append(log, Call("read_entity_data", <<e.id>>))
                     /\ reads' = Append(reads, [id |-> e.id, dir |-> dir, registered |-> i, read |-> r])
                     /\ IF r.error # NoError
                        THEN Raise(r.error) /\ UNCHANGED dataframe
                        ELSE /\ dataframe' = r.dataframe
                             /\ pc' = "register"
                             /\ UNCHANGED <<error, result, tmpdir>>
                ELSE /\ log' = Append(log, Call("empty_dataframe", <<e.id>>))
                     /\ dataframe' = empty_dataframe(merged)
                     /\ pc' = "register"
                     /\ UNCHANGED <<reads, error, result, tmpdir>>
    /\ UNCHANGED <<entry, path, profile_name, kwargs, manifest_file, description0,
                   entityset, last_time_index, i, j, transfers, ncalls>>

\* description_to_entity's lines 54-61, then lines 86-87: the variable types
\* are reconstructed (popping 'value' from each object tag of the manifest),
\* the entity is registered, and its id collected when it is flagged
RegisterEntity ==
    /\ pc = "register"
    /\ LET e == description[1].entities[i + 1]
           vt == VariableTypes(e.variables)
       IN  /\ description' = <<[description[1] EXCEPT !.entities[i + 1].variables = vt.variables]>>
           /\ IF vt.failed_at # 0
              THEN /\ Raise(Error("KeyError", "description_to_variable"))
                   /\ UNCHANGED <<entityset, last_time_index, i, log>>
              ELSE /\ entityset' = <<[entityset[1] EXCEPT !.entities =
                                        Append(@, [id |-> e.id, dataframe |-> dataframe,
                                                   variable_types |-> vt.types])]>>
                   /\ log' = Append(log, Call("entity_from_dataframe", <<e.id>>))
                   /\ last_time_index' = CollectLastTimeIndex(last_time_index, e)
                   /\ i' = i + 1
                   /\ pc' = AfterEntities(i + 1)
                   /\ UNCHANGED <<error, result, tmpdir>>
    /\ dataframe' = <<>>
    /\ UNCHANGED <<entry, path, profile_name, kwargs, manifest_file, description0,
                   j, transfers, reads, ncalls>>

\* lines 89-91: each relationship is resolved against the entity-set and added
AddRelationship ==
    /\ pc = "relationships"
    /\ LET rel == description[1].relationships[j + 1]
       IN  IF Resolves(rel, entityset[1])
           THEN /\ entityset' = <<[entityset[1] EXCEPT !.relationships = Append(@, rel)]>>
                /\ log' = Append(log, Call("add_relationship", <<rel.parent, rel.child>>))
                /\ j' = j + 1
                /\ pc' = AfterRelationships(j + 1)
                /\ UNCHANGED <<error, result, tmpdir>>
           ELSE /\ Raise(Error("KeyError", "Relationship.from_dictionary"))
                /\ UNCHANGED <<entityset, log, j>>
    /\ UNCHANGED <<entry, path, profile_name, kwargs, manifest_file, description,
                   description0, last_time_index, i, dataframe, transfers, reads, ncalls>>

\* lines 93-94: one bulk pass over the flagged entities, when there are any
AddLastTimeIndexes ==
    /\ pc = "last_time_indexes"
    /\ IF Len(last_time_index) > 0
       THEN /\ log' = Append(log, Call("add_last_time_indexes", last_time_index))
            /\ entityset' = <<[entityset[1] EXCEPT !.last_time_indexes = last_time_index]>>
       ELSE UNCHANGED <<log, entityset>>
    /\ pc' = "return"
    /\ UNCHANGED <<entry, path, profile_name, kwargs, manifest_file, description,
                   description0, last_time_index, i, j, dataframe, tmpdir, transfers,
                   reads, result, error, ncalls>>

\* line 96, and read_entityset's return of line 209 or 212, which leaves the
\* with block
Return ==
    /\ pc = "return"
    /\ result' = entityset
    /\ tmpdir' = ExitTmpdir(tmpdir, FALSE)
    /\ pc' = "returned"
    /\ UNCHANGED <<entry, path, profile_name, kwargs, manifest_file, description,
                   description0, entityset, last_time_index, i, j, dataframe,
                   transfers, log, reads, error, ncalls>>

Terminal == pc \in {"returned", "raised"}

\* The caller of description_to_entityset, having got an entity-set, repeats
\* the call: the same manifest object, the same keyword parameters.
CallAgain ==
    /\ entry = "description_to_entityset"
    /\ pc = "returned"
    /\ ncalls < MaxCalls
    /\ entityset' = <<>>
    /\ last_time_index' = <<>>
    /\ i' = 0
    /\ j' = 0
    /\ dataframe' = <<>>
    /\ log' = <<>>
    /\ reads' = <<>>
    /\ result' = <<>>
    /\ error' = NoError
    /\ pc' = "description_to_entityset"
    /\ UNCHANGED <<entry, path, profile_name, kwargs, manifest_file, description,
                   description0, tmpdir, transfers, ncalls>>

Next ==
    \/ ReadEntityset
    \/ Fetch
    \/ Extract
    \/ ReadDataDescription
    \/ DescriptionToEntityset
    \/ LoadEntity
    \/ RegisterEntity
    \/ AddRelationship
    \/ AddLastTimeIndexes
    \/ Return
    \/ CallAgain

Spec == Init /\ [][Next]_vars

-----------------------------------------------------------------------------
(* Properties *)

\* how many of the first n calls of the log are calls of op
Count(op, n) == Cardinality({k \in 1..n : log[k].op = op})

Positions(op) == {k \in 1..Len(log) : log[k].op = op}

NumEntities == Len(description0[1].entities)

NumRelationships == Len(description0[1].relationships)

SupportedFormats == {"csv", "parquet", "pickle"}

EntitySetOps ==
    {"EntitySet", "read_entity_data", "empty_dataframe", "entity_from_dataframe",
     "add_relationship", "add_last_time_indexes"}

\* C1: a manifest with an incompatible schema-version tag makes the read raise
\* the version error before the EntitySet is constructed and before any
\* entity is read or registered, any relationship added or the
\* last-time-index pass run; no entity-set is returned.
C1_VersionFailureComesFirst ==
    (description # <<>> /\ ~CompatibleVersion(description[1].schema_version)) =>
        /\ pc \in {"description_to_entityset", "raised"}
        /\ pc = "raised" => error.type = "SchemaVersionError"
        /\ entityset = <<>>
        /\ result = <<>>
        /\ reads = <<>>
        /\ \A k \in 1..Len(log) : log[k].op \notin EntitySetOps

C1_Witness ==
    /\ entry = "read_entityset"
    /\ pc = "raised"
    /\ error.type = "SchemaVersionError"
    /\ Len(description[1].entities) = MaxStoredEntities

\* every endpoint of every relationship names an entity of the manifest
EndpointsNamed(m) ==
    \A k \in 1..Len(m.relationships) :
        /\ m.relationships[k].parent \in 1..Len(m.entities)
        /\ m.relationships[k].child \in 1..Len(m.entities)

\* C2: the entity-set returned for a manifest of N entities and R
\* relationships holds exactly the N tables and the R relationships; no
\* relationship is added before all N entities are registered, and resolving
\* a relationship whose endpoints name entities of the manifest never fails,
\* whichever entity it names.
C2_TablesThenRelationships ==
    /\ pc = "returned" =>
         /\ Len(result[1].entities) = NumEntities
         /\ \A k \in 1..NumEntities : result[1].entities[k].id = description0[1].entities[k].id
         /\ result[1].relationships = description0[1].relationships
    /\ \A k \in Positions("add_relationship") : Count("entity_from_dataframe", k) = NumEntities
    /\ (pc = "raised" /\ error.where = "Relationship.from_dictionary") =>
         ~EndpointsNamed(description0[1])

C2_Witness ==
    /\ pc = "returned"
    /\ NumEntities = MaxEntities
    /\ NumRelationships = MaxRelationships
    /\ result[1].relationships[1].parent = NumEntities
    /\ Len(result[1].entities) = MaxEntities

RECURSIVE FlaggedIds(_)
FlaggedIds(es) ==
    IF es = <<>> THEN <<>>
    ELSE IF Head(es).last_time_index THEN <<Head(es).id>> \o FlaggedIds(Tail(es))
    ELSE FlaggedIds(Tail(es))

\* C3: in a successful run the bulk last-time-index pass runs exactly once
\* when some entity is flagged and not at all when none is; its argument is
\* exactly the ids of the flagged entities; it runs after every entity and
\* every relationship has been added.
C3_LastTimeIndexPass ==
    LET passes == Positions("add_last_time_indexes")
    IN  /\ Cardinality(passes) <= 1
        /\ \A k \in passes :
             /\ log[k].arg = FlaggedIds(description0[1].entities)
             /\ log[k].arg # <<>>
             /\ Count("entity_from_dataframe", k) = NumEntities
             /\ Count("add_relationship", k) = NumRelationships
             /\ k = Len(log)
        /\ pc = "returned" =>
             /\ (passes # {}) <=> (\E k \in 1..NumEntities : description0[1].entities[k].last_time_index)
             /\ result[1].last_time_indexes = FlaggedIds(description0[1].entities)

C3_Witness ==
    /\ pc = "returned"
    /\ NumEntities = MaxEntities
    /\ NumRelationships > 0
    /\ ~description0[1].entities[1].last_time_index
    /\ Positions("add_last_time_indexes") # {}
    /\ log[Len(log)].arg = <<MaxEntities>>

\* C4: the temporary directory of a remote read exists while the archive is
\* fetched, extracted and loaded, and is gone once read_entityset has exited,
\* by a return or by any failure; a local read makes no temporary directory,
\* transfers nothing and extracts nothing.
C4_TemporaryDirectoryIsScoped ==
    /\ (entry = "read_entityset" /\ Remote /\ Terminal) => tmpdir = "removed"
    /\ (entry = "read_entityset" /\ Remote /\ ~Terminal /\ pc # "read_entityset") => tmpdir = "exists"
    /\ ~Remote => (tmpdir = "none" /\ transfers = <<>> /\ Positions("extractall") = {})

C4_Witness ==
    /\ Remote
    /\ pc = "raised"
    /\ error.type = "ValueError"
    /\ Len(reads) = MaxStoredEntities
    /\ tmpdir = "removed"

\* C5: a remote read makes exactly one transfer, chosen by the decision table:
\* URL -> streaming download without a session; S3 with a named profile ->
\* streaming download with that profile's session; S3 with False -> the
\* storage client; S3 with no selector -> streaming download when ambient
\* credentials are found, the storage client when none are.
C5_TransferFollowsTheTable ==
    /\ pc \in {"read_entityset", "transfer"} => transfers = <<>>
    /\ (entry = "read_entityset" /\ Remote /\ pc \notin {"read_entityset", "transfer"}) =>
         /\ Len(transfers) = 1
         /\ transfers[1].src = path
         /\ LET t == transfers[1]
                streaming(session) == t.fn = "use_smartopen_es" /\ t.session = session
                client == t.fn = "use_s3fs_es" /\ t.session = ""
            IN  CASE path[1] # "s3:" -> streaming("")
                  [] path[1] = "s3:" /\ profile_name = "dev" -> streaming("dev")
                  [] path[1] = "s3:" /\ profile_name = PyFalse -> client
                  [] path[1] = "s3:" /\ profile_name = PyNone ->
                       \/ t.credentials = "found" /\ streaming("")
                       \/ t.credentials = "absent" /\ client

C5_Witness ==
    /\ pc = "returned"
    /\ path = S3Path
    /\ profile_name = PyFalse
    /\ transfers = <<Transfer("use_s3fs_es", "", "unprobed", S3Path, TmpDirPath \o <<"es.tar">>)>>

\* C6: reading an entity whose format tag is none of csv, parquet and pickle
\* raises an error listing the three formats, and that ends the read: the
\* entity is not registered, nothing is read, registered or added after it,
\* and nothing is returned.
C6_UnsupportedFormatAborts ==
    \A k \in 1..Len(reads) :
        reads[k].read.format \notin SupportedFormats =>
            /\ reads[k].read.error.type = "ValueError"
            /\ {reads[k].read.error.formats[m] : m \in 1..Len(reads[k].read.error.formats)}
                 = SupportedFormats
            /\ k = Len(reads)
            /\ pc = "raised"
            /\ error = reads[k].read.error
            /\ result = <<>>
            /\ log[Len(log)] = Call("read_entity_data", <<reads[k].id>>)
            /\ Len(entityset[1].entities) = reads[k].registered
            /\ entityset[1].relationships = <<>>

C6_Witness ==
    /\ pc = "raised"
    /\ error.type = "ValueError"
    /\ Len(entityset[1].entities) > 0
    /\ description[1].entities[i + 1].type = "xml"

\* C7: description_to_entityset leaves the manifest it was given unchanged:
\* when the call has ended, every entity's params and every variable's type
\* description are what they were when the call began.
C7_ManifestIsUnchanged ==
    (Terminal /\ description0 # <<>>) => description = description0

\* the caller's value on every key the caller gives, the manifest's on the rest
MergedParams(m, c) ==
    {<<key, IF key \in Keys(c) THEN Get(c, key) ELSE Get(m, key)>> : key \in Keys(m) \cup Keys(c)}

\* C8: the parameters in effect when an entity's data is read are the
\* manifest's parameters of that entity merged with the caller's, the caller
\* winning on shared keys; the entities are merged and read in the manifest's
\* order, each merged before it is read.
C8_CallerParametersWin ==
    /\ \A k \in 1..Len(reads) :
         LET r == reads[k]
             merged == MergedParams(description0[1].entities[r.id].params, kwargs)
         IN  /\ r.id = k
             /\ r.registered = k - 1
             /\ r.read.kwargs = merged
             /\ r.read.passed \subseteq merged
             /\ r.read.format = "pickle" => r.read.passed = merged
    /\ (description0 # <<>> /\ pc # "description_to_entityset") =>
         \A k \in 1..i :
             description[1].entities[k].params
                 = MergedParams(description0[1].entities[k].params, kwargs)

C8_Witness ==
    /\ Len(reads) = MaxEntities
    /\ reads[1].read.format = "csv"
    /\ reads[1].read.error = NoError
    /\ reads[1].read.passed = {<<"engine", "python">>, <<"compression", "gzip">>, <<"encoding", "utf-8">>}
    /\ reads[MaxEntities].read.format = "pickle"
    /\ <<"nrows", "5">> \in reads[MaxEntities].read.passed

\* C9 as stated: read_data_description validates the schema version, so a
\* manifest it has returned carries a compatible version tag.
C9_ReaderValidatesVersion ==
    (entry = "read_entityset" /\ description # <<>>) =>
        CompatibleVersion(description[1].schema_version)

\* C9 as amended: read_data_description does not look at the version tag. For
\* an existing directory whose data_description.json parses it returns the
\* stored manifest, whatever its version tag, stamped under 'path' with the
\* absolute path of the directory; a directory that does not exist, a missing
\* file or an invalid one is an error.
C9_ReaderStampsPath ==
    entry = "read_entityset" =>
        /\ pc = "description_to_entityset" =>
             /\ manifest_file.state = "ok"
             /\ [description[1] EXCEPT !.path = NoPath] = manifest_file.content[1]
             /\ description[1].path \in ExistingDirs
             /\ description[1].path[1] = "/"
             /\ description[1].path[Len(description[1].path)]
                  = (IF Remote THEN "tmpdir" ELSE path[Len(path)])
        /\ manifest_file.state \in {"missing", "invalid"} =>
             (pc = "raised" /\ description = <<>> /\ error.where = "read_data_description")
        /\ (~Remote /\ ~exists(abspath(path)) /\ pc \notin {"read_entityset", "read_data_description"}) =>
             (pc = "raised" /\ description = <<>> /\ error.type = "AssertionError")

C9_Witness ==
    /\ entry = "read_entityset"
    /\ pc = "description_to_entityset"
    /\ path = <<"data">>
    /\ description[1].path = <<"/", "home", "user", "data">>
    /\ ~CompatibleVersion(description[1].schema_version)

\* the columns an entity description declares as LatLong, in either tag shape
DeclaredLatLongs(e) ==
    {e.variables[k].id : k \in
        {m \in 1..Len(e.variables) :
            \/ e.variables[m].type.is_str /\ e.variables[m].type.str = LatLongType
            \/ /\ ~e.variables[m].type.is_str
               /\ <<"value", LatLongType>> \in e.variables[m].type.obj}}

\* every tag is a bare string or an object carrying 'value'
AcceptedTags(e) ==
    \A k \in 1..Len(e.variables) :
        e.variables[k].type.is_str \/ "value" \in Keys(e.variables[k].type.obj)

\* C10: for an entity whose variables use either accepted tag shape,
\* read_entity_data on csv or parquet data completes and decodes exactly the
\* columns declared LatLong; on pickle data it decodes none.
C10_DecodesEitherTagShape ==
    \A k \in 1..Len(reads) :
        LET r == reads[k].read
            e == description0[1].entities[reads[k].id]
        IN  (AcceptedTags(e) /\ r.format \in SupportedFormats /\ r.error.where # "pandas") =>
                /\ r.error = NoError
                /\ r.decoded = (IF r.format = "pickle" THEN {} ELSE DeclaredLatLongs(e))
                /\ \A c \in 1..Len(r.dataframe) :
                     r.dataframe[c].id \in r.decoded =>
                         r.dataframe[c].cell = TupleCell(<<405, 0 - 739>>)

====
